---- MODULE Spec2Model ----
(***************************************************************************)
(* A top-to-bottom run of notebooks/04_EY_challenge2/                      *)
(* Sentinel-1_example_rgb.ipynb: the datacube query cells, the raster      *)
(* load, the channel-derivation cell and the plotting cells, one action    *)
(* per statement.  Pixel values are binary floating-point numbers with     *)
(* round-to-nearest-even, gradual underflow, overflow to infinity and NaN. *)
(***************************************************************************)
EXTENDS Integers, Sequences, FiniteSets

(***************************************************************************)
(* Floating point.  The raster bands are IEEE-754 binary floats (float32   *)
(* in the product).  The model keeps the structure of the format and       *)
(* shrinks its widths: a finite value is k units of the smallest           *)
(* subnormal, k has at most Precision significant bits, 1.0 is One units   *)
(* and the largest finite value is MaxFinite units.  Backscatter is a      *)
(* linear power, so values are non-negative; there is no negative zero.    *)
(***************************************************************************)
Precision == 3
ExpOne == 4
ExpMax == 6

RECURSIVE Pow2(_)
Pow2(n) == IF n = 0 THEN 1 ELSE 2 * Pow2(n - 1)

One == Pow2(ExpOne)
MaxFinite == (Pow2(Precision) - 1) * Pow2(ExpMax)
MinNormal == Pow2(Precision - 1)

NaN == [c |-> "nan", k |-> 0]
Inf == [c |-> "inf", k |-> 0]
Fin(k) == [c |-> "fin", k |-> k]
Zero == Fin(0)

IsNaN(x) == x.c = "nan"
IsInf(x) == x.c = "inf"
IsFinite(x) == x.c = "fin"
IsZero(x) == x.c = "fin" /\ x.k = 0

\* The binade of a quotient q: how many low bits do not fit in the significand.
RECURSIVE Shift(_)
Shift(q) == IF q < Pow2(Precision) THEN 0 ELSE 1 + Shift(q \div 2)

\* The float nearest to the exact rational n/d (in units), ties to even;
\* a rounded value above MaxFinite overflows to infinity.
Round(n, d) ==
    LET s == Shift(n \div d)
        dd == d * Pow2(s)
        m == n \div dd
        rem == n - m * dd
        up == 2 * rem > dd \/ (2 * rem = dd /\ m % 2 = 1)
        k == (IF up THEN m + 1 ELSE m) * Pow2(s)
    IN  IF k > MaxFinite THEN Inf ELSE Fin(k)

\* Mutant: a division that masks every zero denominator as NaN.
FDivZeroNaN(a, b) ==
    IF IsNaN(a) \/ IsNaN(b) THEN NaN
    ELSE IF IsInf(a) THEN (IF IsInf(b) THEN NaN ELSE Inf)
    ELSE IF IsInf(b) THEN Zero
    ELSE IF b.k = 0 THEN NaN
    ELSE Round(a.k * One, b.k)

\* a / b as numpy divides floats: no exception, a warning at most.
FDiv(a, b) ==
    IF IsNaN(a) \/ IsNaN(b) THEN NaN
    ELSE IF IsInf(a) THEN (IF IsInf(b) THEN NaN ELSE Inf)
    ELSE IF IsInf(b) THEN Zero
    ELSE IF b.k = 0 THEN (IF a.k = 0 THEN NaN ELSE Inf)
    ELSE Round(a.k * One, b.k)

FAdd(a, b) ==
    IF IsNaN(a) \/ IsNaN(b) THEN NaN
    ELSE IF IsInf(a) \/ IsInf(b) THEN Inf
    ELSE Round(a.k + b.k, 1)

FMul(a, b) ==
    IF IsNaN(a) \/ IsNaN(b) THEN NaN
    ELSE IF IsInf(a) \/ IsInf(b) THEN (IF IsZero(a) \/ IsZero(b) THEN NaN ELSE Inf)
    ELSE Round(a.k * b.k, One)

\* An integer count as a float (counts stay small enough to be exact).
FromInt(n) == Round(n * One, 1)


(***************************************************************************)
(* Arrays.  A band is the flat sequence of its pixels, time slices one     *)
(* after the other; a Dataset is its number of time slices and its bands.  *)
(***************************************************************************)
\* xarray's a / b for two bands of one Dataset (identical coordinates).
DivArrays(a, b) == [i \in 1..Len(a) |-> FDiv(a[i], b[i])]

\* xarray's a / m for a band and a scalar.
DivScalar(a, m) == [i \in 1..Len(a) |-> FDiv(a[i], m)]

\* Summation in pixel order, each partial sum rounded.
RECURSIVE SumFrom(_, _, _)
SumFrom(a, i, acc) == IF i > Len(a) THEN acc ELSE SumFrom(a, i + 1, FAdd(acc, a[i]))

Sum(a) == IF Len(a) = 0 THEN Zero ELSE SumFrom(a, 2, a[1])

IsNotNaN(x) == ~IsNaN(x)

\* DataArray.mean() of a float band: skipna defaults to True, so the NaN
\* pixels are dropped and the rest (infinities included) are averaged.
XrMean(a) ==
    LET kept == SelectSeq(a, IsNotNaN)
    IN  IF Len(kept) = 0 THEN NaN ELSE FDiv(Sum(kept), FromInt(Len(kept)))

\* Mutant: np.mean, which lets a NaN pixel make the mean NaN.
NpMean(a) == IF Len(a) = 0 THEN NaN ELSE FDiv(Sum(a), FromInt(Len(a)))

\* np.nanmean: NaN pixels replaced by 0, the sum divided by the count of
\* the pixels that were not NaN (0 / 0 = NaN when there is none).
NpNanMean(a) ==
    LET arr == [i \in 1..Len(a) |-> IF IsNaN(a[i]) THEN Zero ELSE a[i]]
        cnt == Cardinality({i \in 1..Len(a) : ~IsNaN(a[i])})
    IN  FDiv(Sum(arr), FromInt(cnt))

\* .isel(time=0) / rgb(index=0): the first time slice of a band.
IselTime0(ds, a) == SubSeq(a, 1, Len(a) \div ds.time)

\* ds[name] = value: adds the band or overwrites it, the others untouched.
SetItem(ds, name, value) ==
    [ds EXCEPT !.bands = [b \in DOMAIN @ \cup {name} |-> IF b = name THEN value ELSE @[b]]]

\* name = value in the notebook's global namespace.
Assign(e, name, value) == [n \in DOMAIN e \cup {name} |-> IF n = name THEN value ELSE e[n]]

(***************************************************************************)
(* The datacube.  A dataset carries its id, its center_time and its        *)
(* product; its metadata document is looked up from the id.                *)
(***************************************************************************)
LoadId == 3
FilterId == 3
SampleIndex == 100
ProductName == "s1_rtc"

MetadataDoc(ds) ==
    [id |-> ds.id,
     label |-> ds.id,
     extent |-> [lat |-> [begin |-> 4 * ds.id, end |-> 4 * ds.id + 1],
                 lon |-> [begin |-> 4 * ds.id + 2, end |-> 4 * ds.id + 3]],
     properties |-> [datetime |-> ds.center_time]]

IsProduct(ds) == ds.product = ProductName

\* dc.find_datasets(product='s1_rtc'): the index's datasets of that product.
FindDatasets(index) == SelectSeq(index, IsProduct)

\* Mutant: the key without its second component.
KeyLETimeOnly(a, b) == a.center_time <= b.center_time

\* The sort key of cell 6: lambda ds: (ds.center_time, ds.id), tuples
\* compared lexicographically.
KeyLE(a, b) == a.center_time < b.center_time \/ (a.center_time = b.center_time /\ a.id <= b.id)

\* sorted() is stable: the element at position i lands after every element
\* with a smaller key and after the earlier elements with an equal key.
Rank(s, i) ==
    Cardinality({j \in 1..Len(s) :
        \/ ~KeyLE(s[i], s[j])
        \/ (KeyLE(s[j], s[i]) /\ j <= i)})

sorted(s) == [r \in 1..Len(s) |-> s[CHOOSE i \in 1..Len(s) : Rank(s, i) = r]]

\* [ds for ds in senti_datasets if ds.metadata_doc['id'] == id]
SelectById(s, id) == SelectSeq(s, LAMBDA ds : MetadataDoc(ds).id = id)

(***************************************************************************)
(* Inputs: what the external datacube holds.                               *)
(***************************************************************************)
NPix == 2
MaxCat == 3
MaxTime == 2

\* The pixel values the rasters draw from: the largest value of the lowest
\* binade, 2.0, 10.0 and the largest finite value.
Small == Fin(Pow2(Precision) - 1)
Two == Fin(2 * One)
Ten == Fin(10 * One)
Big == Fin(MaxFinite)

\* (vv, vh) at one pixel: both zero, either zero, inexact and exact
\* reciprocals, a missing measurement, a quotient that is subnormal and one
\* that overflows.
PixelPairs ==
    {<<Zero, Zero>>, <<Zero, Small>>, <<Small, Zero>>, <<Small, Two>>,
     <<Small, Small>>, <<NaN, Small>>, <<Ten, Small>>, <<Small, Big>>}

\* The rasters dc.load may return for a dataset: NPix pixels in one time
\* slice or in NPix slices of one pixel.
Rasters ==
    {[time |-> t, bands |-> [b \in {"vv", "vh"} |->
                               [i \in 1..NPix |-> IF b = "vv" THEN px[i][1] ELSE px[i][2]]]] :
        t \in {1, NPix}, px \in [1..NPix -> PixelPairs]}

EmptyDataset == [time |-> 0, bands |-> [b \in {} |-> <<>>]]

\* Short indexes: up to MaxCat datasets with distinct ids, in any order.
Datasets == [id : 1..MaxCat, center_time : 1..MaxTime, product : {ProductName}]
ShortIndexes ==
    UNION {{s \in [1..n -> Datasets] : \A i, j \in 1..n : i # j => s[i].id # s[j].id} :
              n \in 0..MaxCat}

\* Long indexes around the sampled position: n datasets, ids descending, in
\* an order that is not the sorted one, with or without the loaded id, with
\* or without datasets of another product in between.
LongIndex(n, first, stride, mixed) ==
    [i \in 1..n |->
        [id |-> first + n - i,
         center_time |-> (i * stride) % 5,
         product |-> IF mixed /\ i % 50 = 0 THEN "s2_l2a" ELSE ProductName]]

LongShapes ==
    {<<SampleIndex, 1, FALSE>>, <<SampleIndex + 1, 1, FALSE>>,
     <<SampleIndex + 1, 3, TRUE>>, <<SampleIndex + 3, 3, TRUE>>}

LongIndexes ==
    {LongIndex(v[1], first, v[2], v[3]) : v \in LongShapes, first \in {1, LoadId + 1}}

(***************************************************************************)
(* State.                                                                  *)
(***************************************************************************)
VARIABLES
    pc,        \* source line of the next statement; Done after the last
    error,     \* the exception that stopped the run, or "none"
    env,       \* the notebook's global namespace: name -> value
    calls,     \* the calls made into the datacube, print and the plotting libraries
    trace,     \* the source lines executed so far
    dc_index   \* the datasets the datacube indexes, in find_datasets order

vars == <<pc, error, env, calls, trace, dc_index>>

Done == 0

\* The statements of the code cells, top to bottom, by source line.
Lines ==
    <<41, 82, 92, 93, 97, 98, 99, 100, 110, 127, 139, 148, 149, 152, 153, 154,
      163, 164, 183, 208, 209, 212, 213, 214, 226, 227, 237, 238, 250, 251,
      268, 279, 280, 281, 282, 285, 289>>

\* Mutant: the run starts over from the load after the last statement.
NextLineRerun(l) ==
    LET i == CHOOSE j \in 1..Len(Lines) : Lines[j] = l
    IN  IF i = Len(Lines) THEN 127 ELSE Lines[i + 1]

\* Mutant: cell 17 (the vh_g plot) placed before the derivation cell.
NextLinePlotsFirst(l) ==
    LET order == <<41, 82, 92, 93, 97, 98, 99, 100, 110, 127, 139, 148, 149, 152, 153,
                   154, 163, 164, 183, 226, 227, 208, 209, 212, 213, 214, 237, 238,
                   250, 251, 268, 279, 280, 281, 282, 285, 289>>
        i == CHOOSE j \in 1..Len(order) : order[j] = l
    IN  IF i = Len(order) THEN Done ELSE order[i + 1]

\* Run-all order: the statement after line l.
NextLine(l) ==
    LET i == CHOOSE j \in 1..Len(Lines) : Lines[j] = l
    IN  IF i = Len(Lines) THEN Done ELSE Lines[i + 1]

Init ==
    /\ pc = Lines[1]
    /\ error = "none"
    /\ env = [n \in {} |-> 0]
    /\ calls = <<>>
    /\ trace = <<>>
    /\ dc_index \in ShortIndexes \cup LongIndexes

\* One statement at line l.  Reading a name that is not bound raises
\* NameError; fault is the exception the statement itself raises, if any.
\* An exception stops the run where it is: no cell catches anything.
Stmt(l, reads, fault, newEnv, newCalls) ==
    /\ pc = l
    /\ error = "none"
    /\ trace' = Append(trace, l)
    /\ UNCHANGED dc_index
    /\ IF ~(reads \subseteq DOMAIN env)
       THEN error' = "NameError" /\ UNCHANGED <<pc, env, calls>>
       ELSE IF fault # "none"
       THEN error' = fault /\ UNCHANGED <<pc, env, calls>>
       ELSE /\ env' = newEnv
            /\ calls' = newCalls
            /\ pc' = NextLine(l)
            /\ UNCHANGED error

\* s1.<band>: AttributeError when the Dataset has no such variable.
MissingBand(bands) ==
    IF "s1" \in DOMAIN env /\ ~(bands \subseteq DOMAIN env["s1"].bands)
    THEN "AttributeError" ELSE "none"

Band(name) == env["s1"].bands[name]

(***************************************************************************)
(* Cell 2 (lines 41-52): the imports.                                      *)
(***************************************************************************)
Modules == {"plt", "Image", "Datacube", "np", "xr", "sys", "pd", "display_map", "rgb"}

Imports ==
    Stmt(41, {}, "none",
         [n \in DOMAIN env \cup Modules |-> IF n \in Modules THEN "module" ELSE env[n]],
         calls)

(***************************************************************************)
(* Cell 5 (line 82) and cell 6 (lines 92-100): the datacube and its        *)
(* datasets.                                                               *)
(***************************************************************************)
NewDatacube ==
    Stmt(82, {"Datacube"}, "none", Assign(env, "dc", "Datacube"), calls)

FindDatasetsStmt ==
    Stmt(92, {"dc"}, "none",
         Assign(env, "senti_datasets", FindDatasets(dc_index)),
         Append(calls, [op |-> "find_datasets", product |-> ProductName]))

SortDatasets ==
    Stmt(93, {"senti_datasets"}, "none",
         Assign(env, "senti_datasets", sorted(env["senti_datasets"])), calls)

\* senti_datasets[100]: Python indexes from 0.
PickSample ==
    Stmt(97, {"senti_datasets"},
         IF "senti_datasets" \in DOMAIN env /\ Len(env["senti_datasets"]) < SampleIndex + 1
         THEN "IndexError" ELSE "none",
         Assign(env, "sample", env["senti_datasets"][SampleIndex + 1]), calls)

PrintSample ==
    Stmt(98, {"sample"}, "none", env,
         Append(calls, [op |-> "print", what |-> "sample", value |-> env["sample"]]))

PrintLabel ==
    Stmt(99, {"sample"}, "none", env,
         Append(calls, [op |-> "print", what |-> "label",
                        value |-> MetadataDoc(env["sample"]).label]))

PrintCount ==
    Stmt(100, {"senti_datasets"}, "none", env,
         Append(calls, [op |-> "print", what |-> "count",
                        value |-> Len(env["senti_datasets"])]))

\* Cell 7 (line 110): the metadata document as the cell's value.
ShowMetadata ==
    Stmt(110, {"sample"}, "none", env,
         Append(calls, [op |-> "display", what |-> "metadata_doc",
                        value |-> MetadataDoc(env["sample"])]))

(***************************************************************************)
(* Cell 9 (lines 127-130) and cell 10 (line 139): the raster.  dc.load     *)
(* returns the dataset's two bands, or an empty Dataset when the index has *)
(* no dataset with that id.                                                *)
(***************************************************************************)
Indexed(id) == \E i \in 1..Len(dc_index) : IsProduct(dc_index[i]) /\ dc_index[i].id = id

Load ==
    \E r \in Rasters :
        LET got == IF Indexed(LoadId) THEN r ELSE EmptyDataset
        IN  Stmt(127, {"dc"}, "none", Assign(env, "s1", got),
                 Append(calls, [op |-> "load", id |-> LoadId, result |-> got]))

PrintRaster ==
    Stmt(139, {"s1"}, "none", env,
         Append(calls, [op |-> "print", what |-> "s1", value |-> DOMAIN env["s1"].bands]))

(***************************************************************************)
(* Cell 11 (lines 148-154) and cell 12 (lines 163-164): the extent of the  *)
(* dataset with the given id.                                              *)
(***************************************************************************)
SetId ==
    Stmt(148, {}, "none", Assign(env, "id", FilterId), calls)

SelectId ==
    Stmt(149, {"senti_datasets", "id"}, "none",
         Assign(env, "selected_id", SelectById(env["senti_datasets"], env["id"])), calls)

\* selected_id[0] raises IndexError on an empty list.
NoneSelected ==
    IF "selected_id" \in DOMAIN env /\ Len(env["selected_id"]) = 0
    THEN "IndexError" ELSE "none"

GetLat ==
    Stmt(152, {"selected_id"}, NoneSelected,
         Assign(env, "lat_dict", MetadataDoc(env["selected_id"][1]).extent.lat), calls)

GetLon ==
    Stmt(153, {"selected_id"}, NoneSelected,
         Assign(env, "lon_dict", MetadataDoc(env["selected_id"][1]).extent.lon), calls)

GetDatetime ==
    Stmt(154, {"selected_id"}, NoneSelected,
         Assign(env, "dt_string", MetadataDoc(env["selected_id"][1]).properties.datetime),
         calls)

SetLatitude ==
    Stmt(163, {"lat_dict"}, "none",
         Assign(env, "latitude", <<env["lat_dict"].begin, env["lat_dict"].end>>), calls)

SetLongitude ==
    Stmt(164, {"lon_dict"}, "none",
         Assign(env, "longitude", <<env["lon_dict"].begin, env["lon_dict"].end>>), calls)

\* Mutant: the two keyword arguments exchanged.
DisplayMapSwapped ==
    Stmt(183, {"display_map", "longitude", "latitude"}, "none", env,
         Append(calls, [op |-> "display_map", x |-> env["latitude"], y |-> env["longitude"]]))

\* Cell 14 (line 183).
DisplayMap ==
    Stmt(183, {"display_map", "longitude", "latitude"}, "none", env,
         Append(calls, [op |-> "display_map", x |-> env["longitude"], y |-> env["latitude"]]))

(***************************************************************************)
(* Cell 16 (lines 208-214): the derived channels.                          *)
(***************************************************************************)
\* The record of s1[name] = value; by is what the band was divided by.
SetBand(name, by, value) ==
    Append(calls, [op |-> "setitem", band |-> name, by |-> by, value |-> value])

\* Mutant: vv_vh computed with the operands of vh_vv.
DeriveVvVhCopied ==
    LET value == DivArrays(Band("vh"), Band("vv"))
    IN  Stmt(208, {"s1"}, MissingBand({"vv", "vh"}),
             Assign(env, "s1", SetItem(env["s1"], "vv_vh", value)),
             SetBand("vv_vh", "band", value))

DeriveVvVh ==
    LET value == DivArrays(Band("vv"), Band("vh"))
    IN  Stmt(208, {"s1"}, MissingBand({"vv", "vh"}),
             Assign(env, "s1", SetItem(env["s1"], "vv_vh", value)),
             SetBand("vv_vh", "band", value))

\* Mutant: vh_vv computed as vv / vh.
DeriveVhVvSwapped ==
    LET value == DivArrays(Band("vv"), Band("vh"))
    IN  Stmt(209, {"s1"}, MissingBand({"vv", "vh"}),
             Assign(env, "s1", SetItem(env["s1"], "vh_vv", value)),
             SetBand("vh_vv", "band", value))

DeriveVhVv ==
    LET value == DivArrays(Band("vh"), Band("vv"))
    IN  Stmt(209, {"s1"}, MissingBand({"vv", "vh"}),
             Assign(env, "s1", SetItem(env["s1"], "vh_vv", value)),
             SetBand("vh_vv", "band", value))

DeriveVvR ==
    LET value == DivScalar(Band("vv"), XrMean(Band("vv")))
    IN  Stmt(212, {"s1"}, MissingBand({"vv"}),
             Assign(env, "s1", SetItem(env["s1"], "vv_r", value)),
             SetBand("vv_r", "mean", value))

DeriveVhG ==
    LET value == DivScalar(Band("vh"), XrMean(Band("vh")))
    IN  Stmt(213, {"s1"}, MissingBand({"vh"}),
             Assign(env, "s1", SetItem(env["s1"], "vh_g", value)),
             SetBand("vh_g", "mean", value))

DeriveVhVvB ==
    LET value == DivScalar(Band("vh_vv"), XrMean(Band("vh_vv")))
    IN  Stmt(214, {"s1"}, MissingBand({"vh_vv"}),
             Assign(env, "s1", SetItem(env["s1"], "vhvv_b", value)),
             SetBand("vhvv_b", "mean", value))

(***************************************************************************)
(* Cells 17-19 (lines 226-251): one band each, then plt.show().            *)
(***************************************************************************)
PlotBand(l, name) ==
    Stmt(l, {"s1"}, MissingBand({name}), env,
         Append(calls, [op |-> "plot", band |-> name, data |-> Band(name)]))

Show(l) ==
    Stmt(l, {"plt"}, "none", env, Append(calls, [op |-> "show"]))

PlotVh == PlotBand(226, "vh_g")
ShowVh == Show(227)
PlotVv == PlotBand(237, "vv_r")
ShowVv == Show(238)
PlotRatio == PlotBand(250, "vh_vv")
ShowRatio == Show(251)

(***************************************************************************)
(* Cell 21 (line 268): method 1, the stored channels' first time slice,    *)
(* stacked in the order given: red, green, blue.                           *)
(***************************************************************************)
Composite1 ==
    Stmt(268, {"s1"}, MissingBand({"vv_r", "vh_g", "vhvv_b"}), env,
         Append(calls, [op |-> "imshow",
                        data |-> <<IselTime0(env["s1"], Band("vv_r")),
                                   IselTime0(env["s1"], Band("vh_g")),
                                   IselTime0(env["s1"], Band("vhvv_b"))>>]))

(***************************************************************************)
(* Cell 22 (lines 279-289): method 2, new arrays normalised by np.nanmean, *)
(* gathered in a Dataset of their own and rendered by rgb().               *)
(***************************************************************************)
RedArr ==
    Stmt(279, {"xr", "np", "s1"}, MissingBand({"vv"}),
         Assign(env, "red_arr", DivScalar(Band("vv"), NpNanMean(Band("vv")))), calls)

GreenArr ==
    Stmt(280, {"xr", "np", "s1"}, MissingBand({"vh"}),
         Assign(env, "green_arr", DivScalar(Band("vh"), NpNanMean(Band("vh")))), calls)

\* Mutant: the normalised ratio written back into the raster's vh_vv.
BlueArrInPlace ==
    LET value == DivScalar(Band("vh_vv"), NpNanMean(Band("vh_vv")))
    IN  Stmt(281, {"xr", "np", "s1"}, MissingBand({"vh_vv"}),
             Assign(Assign(env, "blue_arr", value), "s1", SetItem(env["s1"], "vh_vv", value)),
             calls)

BlueArr ==
    Stmt(281, {"xr", "np", "s1"}, MissingBand({"vh_vv"}),
         Assign(env, "blue_arr", DivScalar(Band("vh_vv"), NpNanMean(Band("vh_vv")))), calls)

CompositeArr ==
    Stmt(282, {"xr", "red_arr", "green_arr", "blue_arr"}, "none",
         Assign(env, "composite_arr",
                [time |-> env["s1"].time,
                 bands |-> [b \in {"red", "green", "blue"} |->
                              IF b = "red" THEN env["red_arr"]
                              ELSE IF b = "green" THEN env["green_arr"]
                              ELSE env["blue_arr"]]]),
         calls)

Composite2 ==
    Stmt(285, {"rgb", "composite_arr"}, "none", env,
         Append(calls, [op |-> "rgb",
                        data |-> <<IselTime0(env["composite_arr"], env["composite_arr"].bands["red"]),
                                   IselTime0(env["composite_arr"], env["composite_arr"].bands["green"]),
                                   IselTime0(env["composite_arr"], env["composite_arr"].bands["blue"])>>]))

ShowComposite == Show(289)

Next ==
    \/ Imports \/ NewDatacube
    \/ FindDatasetsStmt \/ SortDatasets \/ PickSample
    \/ PrintSample \/ PrintLabel \/ PrintCount \/ ShowMetadata
    \/ Load \/ PrintRaster
    \/ SetId \/ SelectId \/ GetLat \/ GetLon \/ GetDatetime
    \/ SetLatitude \/ SetLongitude \/ DisplayMap
    \/ DeriveVvVh \/ DeriveVhVv \/ DeriveVvR \/ DeriveVhG \/ DeriveVhVvB
    \/ PlotVh \/ ShowVh \/ PlotVv \/ ShowVv \/ PlotRatio \/ ShowRatio
    \/ Composite1
    \/ RedArr \/ GreenArr \/ BlueArr \/ CompositeArr \/ Composite2 \/ ShowComposite

Spec == Init /\ [][Next]_vars

(***************************************************************************)
(* What the properties below read from a state.                            *)
(***************************************************************************)
\* Line l ran to its end: it is in the trace and the run did not stop on it.
Executed(l) == (\E i \in 1..Len(trace) : trace[i] = l) /\ pc # l

CallsOf(o) == SelectSeq(calls, LAMBDA c : c.op = o)

\* The Dataset as dc.load returned it, and the bands s1 holds now.
Loaded == CallsOf("load")[1].result
S1 == env["s1"].bands
Pixels == DOMAIN Loaded.bands["vv"]

Dist(a, b) == IF a >= b THEN a - b ELSE b - a

\* The finite floats of the format.
Representable == {m * Pow2(e) : m \in 0..(Pow2(Precision) - 1), e \in 0..ExpMax}

\* q is n / d by IEEE 754 for a non-zero d: NaN from NaN or inf/inf, a
\* finite q that no other float beats in distance to the exact quotient, or
\* infinity once the exact quotient is at least half a step above MaxFinite.
IsQuotient(q, n, d) ==
    IF IsNaN(n) \/ IsNaN(d) THEN IsNaN(q)
    ELSE IF IsInf(n) THEN (IF IsInf(d) THEN IsNaN(q) ELSE IsInf(q))
    ELSE IF IsInf(d) THEN IsZero(q)
    ELSE \/ /\ IsFinite(q)
            /\ q.k \in Representable
            /\ \A r \in Representable :
                  Dist(q.k * d.k, n.k * One) <= Dist(r * d.k, n.k * One)
            /\ 2 * n.k * One < d.k * (2 * MaxFinite + Pow2(ExpMax))
         \/ /\ IsInf(q)
            /\ 2 * n.k * One >= d.k * (2 * MaxFinite + Pow2(ExpMax))

(***************************************************************************)
(* C1.  After the derivation cell's two ratio statements, at every pixel   *)
(* whose denominator is not zero, vh_vv is vh / vv and vv_vh is vv / vh    *)
(* (the IEEE quotient of the two bands as they were loaded): the names are *)
(* not swapped.                                                            *)
(***************************************************************************)
C1_RatioChannels ==
    Executed(209) =>
        \A i \in Pixels :
            LET vv == Loaded.bands["vv"][i]
                vh == Loaded.bands["vh"][i]
            IN  /\ ~IsZero(vv) => IsQuotient(S1["vh_vv"][i], vh, vv)
                /\ ~IsZero(vh) => IsQuotient(S1["vv_vh"][i], vv, vh)

\* Both ratios stored, at a pixel where they differ and one of them is inexact.
C1_Witness ==
    /\ Executed(209)
    /\ \E i \in Pixels :
          /\ IsFinite(S1["vh_vv"][i]) /\ IsFinite(S1["vv_vh"][i])
          /\ S1["vh_vv"][i] # S1["vv_vh"][i]
          /\ S1["vh_vv"][i].k * Loaded.bands["vv"][i].k # Loaded.bands["vh"][i].k * One

(***************************************************************************)
(* C2.  Each normalised band (vv_r, vh_g, vhvv_b) is its source band       *)
(* divided by the mean of the source band's finite pixels, also when a     *)
(* pixel of vv is zero and vh there is not.                                *)
(***************************************************************************)
FiniteMean(a) ==
    LET kept == SelectSeq(a, IsFinite)
    IN  IF Len(kept) = 0 THEN NaN ELSE FDiv(Sum(kept), FromInt(Len(kept)))

C2_NormalisedByFiniteMean ==
    Executed(214) =>
        /\ S1["vv_r"] = DivScalar(S1["vv"], FiniteMean(S1["vv"]))
        /\ S1["vh_g"] = DivScalar(S1["vh"], FiniteMean(S1["vh"]))
        /\ S1["vhvv_b"] = DivScalar(S1["vh_vv"], FiniteMean(S1["vh_vv"]))

(***************************************************************************)
(* C3.  Original statement: wherever vh_vv and vv_vh are both finite and   *)
(* non-zero, their floating-point product is exactly 1.                    *)
(***************************************************************************)
C3_ExactReciprocals ==
    Executed(209) =>
        \A i \in Pixels :
            (/\ IsFinite(S1["vh_vv"][i]) /\ ~IsZero(S1["vh_vv"][i])
             /\ IsFinite(S1["vv_vh"][i]) /\ ~IsZero(S1["vv_vh"][i]))
            => FMul(S1["vh_vv"][i], S1["vv_vh"][i]) = Fin(One)

IsNormal(x) == IsFinite(x) /\ x.k >= MinNormal

(***************************************************************************)
(* C3, amended.  Wherever vh_vv and vv_vh are both finite, non-zero and    *)
(* normal (not subnormal), their product is 1 to within two units of       *)
(* roundoff, 2 * 2^-Precision: each quotient is rounded, and so is the     *)
(* product.                                                                *)
(***************************************************************************)
C3_ReciprocalsUpToRounding ==
    Executed(209) =>
        \A i \in Pixels :
            (IsNormal(S1["vh_vv"][i]) /\ IsNormal(S1["vv_vh"][i]))
            => LET prod == FMul(S1["vh_vv"][i], S1["vv_vh"][i])
               IN  IsFinite(prod) /\ Dist(prod.k, One) * Pow2(Precision) <= 2 * One

\* Both ratios normal at a pixel, and their product is not 1.
C3_Witness ==
    /\ Executed(209)
    /\ \E i \in Pixels :
          /\ IsNormal(S1["vh_vv"][i]) /\ IsNormal(S1["vv_vh"][i])
          /\ FMul(S1["vh_vv"][i], S1["vv_vh"][i]) # Fin(One)

\* Why the amended C3 asks for normal ratios: a subnormal ratio has lost
\* significand bits, and the product misses 1 by more than two units of
\* roundoff.
C3_SubnormalRatio ==
    /\ Executed(209)
    /\ \E i \in Pixels :
          /\ IsFinite(S1["vh_vv"][i]) /\ ~IsZero(S1["vh_vv"][i]) /\ ~IsNormal(S1["vh_vv"][i])
          /\ IsFinite(S1["vv_vh"][i])
          /\ Dist(FMul(S1["vh_vv"][i], S1["vv_vh"][i]).k, One) * Pow2(Precision) > 2 * One

(***************************************************************************)
(* The five divisions of the derivation cell at one state: the result      *)
(* band with its numerator and its denominator at pixel i (the scalar mean *)
(* for a normalisation).                                                   *)
(***************************************************************************)
Divisions(i) ==
    {<<S1["vv_vh"][i], S1["vv"][i], S1["vh"][i]>>,
     <<S1["vh_vv"][i], S1["vh"][i], S1["vv"][i]>>,
     <<S1["vv_r"][i], S1["vv"][i], XrMean(S1["vv"])>>,
     <<S1["vh_g"][i], S1["vh"][i], XrMean(S1["vh"])>>,
     <<S1["vhvv_b"][i], S1["vh_vv"][i], XrMean(S1["vh_vv"])>>}

DerivationLines == {208, 209, 212, 213, 214}

\* The derivation cell raised nothing (the loaded raster has both bands).
NoDerivationError == (pc \in DerivationLines /\ Loaded # EmptyDataset) => error = "none"

(***************************************************************************)
(* C4.  Original statement: in each of the five divisions a zero or        *)
(* missing denominator gives NaN, a NaN of vh_vv is a NaN of vhvv_b, and   *)
(* no error is raised.                                                     *)
(***************************************************************************)
C4_ZeroDenominatorIsNaN ==
    /\ NoDerivationError
    /\ Executed(214) =>
          \A i \in Pixels :
              /\ \A d \in Divisions(i) : (IsZero(d[3]) \/ IsNaN(d[3])) => IsNaN(d[1])
              /\ IsNaN(S1["vh_vv"][i]) => IsNaN(S1["vhvv_b"][i])

(***************************************************************************)
(* C4, amended.  In each of the five divisions a missing denominator gives *)
(* NaN, a zero denominator gives NaN under a zero or missing numerator and *)
(* infinity under any other numerator; a NaN or an infinity of vh_vv is a  *)
(* NaN of vhvv_b at that pixel; no such pixel is finite and no error is    *)
(* raised.                                                                 *)
(***************************************************************************)
C4_ZeroDenominatorIsNotFinite ==
    /\ NoDerivationError
    /\ Executed(214) =>
          \A i \in Pixels :
              /\ \A d \in Divisions(i) :
                    /\ IsNaN(d[3]) => IsNaN(d[1])
                    /\ IsZero(d[3]) =>
                          IF IsZero(d[2]) \/ IsNaN(d[2]) THEN IsNaN(d[1]) ELSE IsInf(d[1])
              /\ ~IsFinite(S1["vh_vv"][i]) => IsNaN(S1["vhvv_b"][i])

\* vv is zero under a non-zero vh: vh_vv is infinite there and vhvv_b NaN.
C4_Witness ==
    /\ Executed(214)
    /\ \E i \in Pixels :
          /\ IsZero(S1["vv"][i]) /\ IsInf(S1["vh_vv"][i]) /\ IsNaN(S1["vhvv_b"][i])

(***************************************************************************)
(* C5.  Original statement: the derivation cell adds exactly three bands   *)
(* to the raster.                                                          *)
(***************************************************************************)
DerivedBands == {"vv_vh", "vh_vv", "vv_r", "vh_g", "vhvv_b"}

Assignments(b) == SelectSeq(calls, LAMBDA c : c.op = "setitem" /\ c.band = b)

C5_ThreeDerivedBands ==
    Executed(214) => Cardinality(DOMAIN S1 \ DOMAIN Loaded.bands) = 3

(***************************************************************************)
(* C5, amended.  The derivation cell adds exactly five bands (two ratios,  *)
(* three normalised), each assigned exactly once; from then on the raster  *)
(* holds the loaded vv and vh unchanged beside them, every derived band    *)
(* keeps the value it was assigned, and no other band is ever assigned.    *)
(***************************************************************************)
C5_FiveDerivedBands ==
    /\ \A i \in 1..Len(calls) :
          calls[i].op = "setitem" => calls[i].band \in DerivedBands
    /\ \A b \in DerivedBands : Len(Assignments(b)) <= 1
    /\ "s1" \in DOMAIN env =>
          \A b \in DOMAIN Loaded.bands : S1[b] = Loaded.bands[b]
    /\ Executed(214) =>
          /\ DOMAIN S1 = DOMAIN Loaded.bands \cup DerivedBands
          /\ DOMAIN Loaded.bands = {"vv", "vh"}
          /\ \A b \in DerivedBands :
                Len(Assignments(b)) = 1 /\ S1[b] = Assignments(b)[1].value

\* The run is over and the raster holds its seven bands.
C5_Witness ==
    pc = Done /\ Cardinality(DOMAIN S1) = 7

(***************************************************************************)
(* C6.  Original statement: a complete run loads once, derives three ratio *)
(* channels and makes four rendering calls.                                *)
(***************************************************************************)
RenderOps == {"display_map", "plot", "imshow", "rgb"}
Renderings == SelectSeq(calls, LAMBDA c : c.op \in RenderOps)
DerivedBy(by) == SelectSeq(calls, LAMBDA c : c.op = "setitem" /\ c.by = by)

C6_ThreeRatiosFourRenderings ==
    pc = Done =>
        /\ Len(CallsOf("load")) = 1
        /\ Len(DerivedBy("band")) = 3
        /\ Len(Renderings) = 4

(***************************************************************************)
(* C6, amended.  A complete run loads once, derives two ratio channels and *)
(* three mean-normalised channels, and makes six rendering calls           *)
(* (display_map, three plots, imshow, rgb) with four plt.show(); at every  *)
(* moment the lines executed are an initial part of the notebook in cell   *)
(* order, none twice, and a run stopped by an exception stays stopped on   *)
(* the failing line.                                                       *)
(***************************************************************************)
C6_OneLoadSixRenderings ==
    /\ Len(trace) <= Len(Lines)
    /\ \A i \in 1..Len(trace) : trace[i] = Lines[i]
    /\ Len(CallsOf("load")) <= 1
    /\ error # "none" => Len(trace) > 0 /\ trace[Len(trace)] = pc
    /\ pc = Done =>
          /\ trace = Lines
          /\ error = "none"
          /\ Len(CallsOf("load")) = 1
          /\ Len(DerivedBy("band")) = 2
          /\ Len(DerivedBy("mean")) = 3
          /\ Len(Renderings) = 6
          /\ Len(CallsOf("plot")) = 3
          /\ Len(CallsOf("show")) = 4

\* A complete run: the last statement has run and nothing was raised.
C6_Witness ==
    pc = Done /\ error = "none" /\ Len(trace) = Len(Lines)

(***************************************************************************)
(* C7.  After the dataset-location cell senti_datasets is a permutation of *)
(* what find_datasets(product='s1_rtc') returned and ascends in            *)
(* (center_time, id): each entry has a smaller center_time than the next,  *)
(* or the same center_time and an id that is not larger.  The order and   *)
(* the length are compared in every state after the sort, the contents     *)
(* where the cell has just run and where the run ends or stops.            *)
(***************************************************************************)
Count(s, x) == Cardinality({i \in 1..Len(s) : s[i] = x})

IsPermutation(a, b) ==
    /\ Len(a) = Len(b)
    /\ \A i \in 1..Len(a) : Count(a, a[i]) = Count(b, a[i])

Ascending(s) ==
    \A i \in 1..(Len(s) - 1) :
        \/ s[i].center_time < s[i + 1].center_time
        \/ (s[i].center_time = s[i + 1].center_time /\ s[i].id <= s[i + 1].id)

C7_SortedPermutation ==
    Executed(93) =>
        /\ Ascending(env["senti_datasets"])
        /\ Len(env["senti_datasets"]) = Len(FindDatasets(dc_index))
        /\ (pc \in {97, 98, 99, 100, 110, Done} \/ error # "none") =>
              IsPermutation(env["senti_datasets"], FindDatasets(dc_index))

\* The sort had work to do: find_datasets returned two datasets of one
\* center_time with the larger id first, and the whole cell has run.
C7_Witness ==
    /\ Executed(100)
    /\ \E i, j \in 1..Len(dc_index) :
          /\ i < j
          /\ dc_index[i].center_time = dc_index[j].center_time
          /\ dc_index[i].id > dc_index[j].id

(***************************************************************************)
(* C8.  The id that filters senti_datasets is the id passed to dc.load;    *)
(* selected_id holds exactly the datasets with that metadata id; latitude  *)
(* and longitude are the (begin, end) of the first one's lat and lon, and  *)
(* display_map gets longitude as x and latitude as y.  With no such        *)
(* dataset the extraction stops on IndexError at its first statement,      *)
(* latitude and longitude stay unassigned, and nothing runs afterwards.    *)
(***************************************************************************)
Matches(s) == {i \in 1..Len(s) : MetadataDoc(s[i]).id = CallsOf("load")[1].id}

FirstMatch(s) == s[CHOOSE i \in Matches(s) : \A j \in Matches(s) : i <= j]

C8_ExtentOfLoadedDataset ==
    /\ ("id" \in DOMAIN env /\ Len(CallsOf("load")) = 1) => env["id"] = CallsOf("load")[1].id
    /\ Executed(149) =>
          LET sel == env["selected_id"]
              all == env["senti_datasets"]
          IN  /\ Len(sel) = Cardinality(Matches(all))
              /\ \A i \in 1..Len(sel) : \E j \in Matches(all) : sel[i] = all[j]
              /\ \A j \in Matches(all) : \E i \in 1..Len(sel) : sel[i] = all[j]
              /\ Matches(all) = {} =>
                    /\ "latitude" \notin DOMAIN env /\ "longitude" \notin DOMAIN env
                    /\ "lat_dict" \notin DOMAIN env /\ "lon_dict" \notin DOMAIN env
                    /\ Len(CallsOf("display_map")) = 0
                    /\ pc = 152
                    /\ (\E i \in 1..Len(trace) : trace[i] = 152) =>
                          /\ error = "IndexError"
                          /\ trace[Len(trace)] = 152
                          /\ ~ENABLED Next
    /\ (error = "IndexError" /\ pc = 152) => Matches(env["senti_datasets"]) = {}
    /\ Executed(164) =>
          LET doc == MetadataDoc(FirstMatch(env["senti_datasets"]))
          IN  /\ env["latitude"] = <<doc.extent.lat.begin, doc.extent.lat.end>>
              /\ env["longitude"] = <<doc.extent.lon.begin, doc.extent.lon.end>>
    /\ Executed(183) =>
          /\ Len(CallsOf("display_map")) = 1
          /\ CallsOf("display_map")[1].x = env["longitude"]
          /\ CallsOf("display_map")[1].y = env["latitude"]
          /\ env["longitude"] # env["latitude"]

\* No dataset has the id: the run stopped on selected_id[0].
C8_Witness ==
    /\ error = "IndexError"
    /\ pc = 152
    /\ Len(env["selected_id"]) = 0
    /\ "latitude" \notin DOMAIN env

(***************************************************************************)
(* C9.  Both composites hand the renderer the same three arrays: method    *)
(* 2's red, green and blue (band / np.nanmean(band)) equal method 1's      *)
(* vv_r, vh_g and vhvv_b (band / band.mean()) at every pixel of the first  *)
(* time slice, NaN and infinite pixels included, and in both the order is  *)
(* vv, vh, vh/vv.                                                          *)
(***************************************************************************)
Normalised(ds, a) == IselTime0(ds, [i \in 1..Len(a) |-> FDiv(a[i], XrMean(a))])

C9_SameComposite ==
    Executed(285) =>
        LET m1 == CallsOf("imshow")[1].data
            m2 == CallsOf("rgb")[1].data
        IN  /\ Len(m1) = 3 /\ Len(m2) = 3
            /\ \A c \in 1..3 :
                  /\ Len(m1[c]) = Len(m2[c])
                  /\ \A i \in 1..Len(m1[c]) : m1[c][i] = m2[c][i]
            /\ m2[1] = Normalised(Loaded, Loaded.bands["vv"])
            /\ m2[2] = Normalised(Loaded, Loaded.bands["vh"])
            /\ m2[3] = Normalised(Loaded, DivArrays(Loaded.bands["vh"], Loaded.bands["vv"]))

\* Both composites drawn from a raster with a missing vv pixel and an
\* infinite vh_vv pixel.
C9_Witness ==
    /\ Executed(285)
    /\ \E i \in Pixels : IsNaN(S1["vv"][i])
    /\ \E i \in Pixels : IsInf(S1["vh_vv"][i])

(***************************************************************************)
(* C10.  Every name is bound before a statement reads it: no run stops on  *)
(* NameError or AttributeError, and each reading line runs after the line  *)
(* that binds what it reads.  senti_datasets[100] succeeds exactly when    *)
(* the query returned at least 101 datasets; with fewer the cell stops     *)
(* there, before any print, and sample is never assigned.                  *)
(***************************************************************************)
InTrace(l) == \E i \in 1..Len(trace) : trace[i] = l
Pos(l) == CHOOSE i \in 1..Len(trace) : trace[i] = l

\* <<binding line, reading line>>
Dependencies ==
    {<<93, 97>>, <<93, 149>>, <<209, 214>>, <<209, 281>>,
     <<213, 226>>, <<212, 237>>, <<209, 250>>,
     <<212, 268>>, <<213, 268>>, <<214, 268>>,
     <<97, 98>>, <<127, 208>>, <<149, 152>>, <<163, 183>>, <<164, 183>>,
     <<279, 282>>, <<280, 282>>, <<281, 282>>, <<282, 285>>}

C10_BoundBeforeRead ==
    /\ error \notin {"NameError", "AttributeError"}
    /\ \A d \in Dependencies :
          InTrace(d[2]) => InTrace(d[1]) /\ Pos(d[1]) < Pos(d[2]) /\ Executed(d[1])
    /\ "sample" \in DOMAIN env => Len(FindDatasets(dc_index)) >= SampleIndex + 1
    /\ InTrace(97) =>
          IF Len(FindDatasets(dc_index)) >= SampleIndex + 1
          THEN Executed(97) /\ env["sample"] = env["senti_datasets"][SampleIndex + 1]
          ELSE /\ error = "IndexError" /\ pc = 97
               /\ "sample" \notin DOMAIN env
               /\ Len(CallsOf("print")) = 0

\* A query that returned exactly 100 datasets: senti_datasets[100] raised.
C10_Witness ==
    /\ error = "IndexError"
    /\ pc = 97
    /\ Len(env["senti_datasets"]) = SampleIndex
    /\ "sample" \notin DOMAIN env

====
